---- MODULE Spec2Model ----
(***************************************************************************)
(* Model of the complex-event-processing agent of src/cep_agent.py:        *)
(* the bounded event buffer, the pattern registry, the evaluation pass     *)
(* run by add_event, the detection log and the statistics.                 *)
(*                                                                         *)
(* Time is an integer clock `now` (the value datetime.now() returns); an   *)
(* evaluation pass reads the clock once.  A call of a user-supplied        *)
(* condition or of Pattern.matches yields "true", "false" or "raise" (an   *)
(* exception leaves the call).                                             *)
(***************************************************************************)
EXTENDS Integers, Sequences, FiniteSets, TLC

VARIABLES
    event_buffer,       \* CEPAgent.event_buffer: deque(maxlen = BufferSize)
    patterns,           \* CEPAgent.patterns: dict pattern_id -> Pattern, in key order
    detected_patterns,  \* CEPAgent.detected_patterns: list of detection records
    statistics,         \* CEPAgent.statistics
    now,                \* the clock read by datetime.now()
    ingest_calls,       \* history: number of add_event calls made so far
    cleared_at,         \* history: value of ingest_calls at the last clear_buffer
    result,             \* history: how the last add_event call ended
    is_running,         \* CEPAgent.is_running
    loops,              \* the start_monitoring coroutines: where each one is
    stopped_loops,      \* history: loops asleep at a stop_monitoring, not yet woken
    snapshot            \* the dictionary get_statistics returned last, as its caller
                        \* holds it: the entries it owns (taken: a call was made)

\* the monitoring scheduler
sched == <<is_running, loops, stopped_loops>>

vars == <<event_buffer, patterns, detected_patterns, statistics, now,
          ingest_calls, cleared_at, result, sched, snapshot>>

----------------------------------------------------------------------------
(* Bounds of the model *)

BufferSize == 3     \* the configured capacity (buffer_size)
MaxIngest == 4      \* add_event calls explored
MaxTime == 2        \* the clock runs over 0..MaxTime
MaxLoops == 3       \* start_monitoring calls explored

----------------------------------------------------------------------------
(* Program constants *)

SpikeThreshold == 10

----------------------------------------------------------------------------
(* Inputs *)

\* (event_type, priority, data.get("temperature", 0)) of the events producers
\* submit; an event without a temperature reads as 0 in the spike condition.
EventInputs ==
    { [event_type |-> "sensor_reading",   priority |-> "MEDIUM",   temperature |-> 20],
      [event_type |-> "alert",            priority |-> "CRITICAL", temperature |-> 0],
      [event_type |-> "threshold_breach", priority |-> "HIGH",     temperature |-> 0] }

\* The timestamps a producer stamps on an event when the clock shows t:
\* the current time, a stale one and a future one.
Timestamps(t) == {0, t, MaxTime}

\* The two example patterns of create_example_patterns
ExamplePatterns ==
    { [pattern_id |-> "temp_spike_01",
       event_types |-> <<"sensor_reading", "sensor_reading">>,
       time_window |-> 2, condition |-> "temperature_spike", action |-> "ok"],
      [pattern_id |-> "critical_seq_01",
       event_types |-> <<"alert", "threshold_breach">>,
       time_window |-> 1, condition |-> "critical_sequence", action |-> "ok"] }

\* Patterns of a registry with faulty members: the critical-sequence
\* pattern, a re-definition of it whose action raises, a pattern whose
\* condition always raises, and a pattern with an empty type sequence and a
\* zero window.
FaultyPatterns ==
    { [pattern_id |-> "critical_seq_01",
       event_types |-> <<"alert", "threshold_breach">>,
       time_window |-> 1, condition |-> "critical_sequence", action |-> "ok"],
      [pattern_id |-> "critical_seq_01",
       event_types |-> <<"alert", "threshold_breach">>,
       time_window |-> 1, condition |-> "critical_sequence", action |-> "raises"],
      [pattern_id |-> "faulty_01",
       event_types |-> <<"threshold_breach">>,
       time_window |-> 1, condition |-> "raises", action |-> "ok"],
      [pattern_id |-> "faulty_01",
       event_types |-> <<>>,
       time_window |-> 0, condition |-> "critical_sequence", action |-> "ok"] }

\* Patterns of a registry whose actions may fail: the critical-sequence
\* pattern with a returning and with a raising action, and a one-type
\* pattern that the same events satisfy.
ActionPatterns ==
    { [pattern_id |-> "critical_seq_01",
       event_types |-> <<"alert", "threshold_breach">>,
       time_window |-> 1, condition |-> "critical_sequence", action |-> "ok"],
      [pattern_id |-> "critical_seq_01",
       event_types |-> <<"alert", "threshold_breach">>,
       time_window |-> 1, condition |-> "critical_sequence", action |-> "raises"],
      [pattern_id |-> "breach_01",
       event_types |-> <<"threshold_breach">>,
       time_window |-> 1, condition |-> "critical_sequence", action |-> "ok"] }

\* The events submitted to an engine with faulty patterns
AlertInputs == { inp \in EventInputs : inp.event_type # "sensor_reading" }

----------------------------------------------------------------------------
(* Helpers *)

\* Python's xs[-n:] : the last n elements, and the whole list when n = 0
\* (-0 is 0) or n >= len(xs).
LastSlice(xs, n) ==
    IF n = 0 \/ n >= Len(xs) THEN xs
    ELSE SubSeq(xs, Len(xs) - n + 1, Len(xs))

MaxOf(S) == CHOOSE x \in S : \A y \in S : y <= x
MinOf(S) == CHOOSE x \in S : \A y \in S : x <= y

\* d.get(k, 0) + 1 stored under k
DictIncrement(d, k) ==
    [x \in DOMAIN d \cup {k} |->
        IF x = k THEN (IF k \in DOMAIN d THEN d[k] ELSE 0) + 1 ELSE d[x]]

EmptyDict == [x \in {} |-> 0]

----------------------------------------------------------------------------
(* Pattern *)

temperature_spike_condition(events) ==
    IF Len(events) < 2 THEN "false"
    ELSE LET values == {events[i].temperature : i \in 1..Len(events)}
         IN IF MaxOf(values) - MinOf(values) > SpikeThreshold
            THEN "true" ELSE "false"

critical_sequence_condition(events) ==
    IF \E i \in 1..Len(events) : events[i].priority = "CRITICAL"
    THEN "true" ELSE "false"

\* pattern.condition(events)
condition(p, events) ==
    CASE p.condition = "temperature_spike" -> temperature_spike_condition(events)
      [] p.condition = "critical_sequence" -> critical_sequence_condition(events)
      [] p.condition = "raises" -> "raise"

\* matches with the type check comparing the types as a set, not in order
matches_unordered(p, events) ==
    IF Len(events) < Len(p.event_types) THEN "false"
    ELSE IF events = <<>> THEN "raise"
    ELSE IF events[Len(events)].timestamp - events[1].timestamp > p.time_window
         THEN "false"
    ELSE IF LET tail == LastSlice([i \in 1..Len(events) |-> events[i].event_type],
                                  Len(p.event_types))
            IN {tail[i] : i \in 1..Len(tail)} #
               {p.event_types[i] : i \in 1..Len(p.event_types)}
         THEN "false"
    ELSE condition(p, events)

\* Pattern.matches(events)
matches(p, events) ==
    IF Len(events) < Len(p.event_types) THEN "false"
    ELSE IF events = <<>> THEN "raise"      \* events[-1] on an empty list: IndexError
    ELSE IF events[Len(events)].timestamp - events[1].timestamp > p.time_window
         THEN "false"
    ELSE IF LastSlice([i \in 1..Len(events) |-> events[i].event_type],
                      Len(p.event_types)) # p.event_types
         THEN "false"
    ELSE condition(p, events)

----------------------------------------------------------------------------
(* CEPAgent *)

Init ==
    /\ event_buffer = <<>>
    /\ patterns = <<>>
    /\ detected_patterns = <<>>
    /\ statistics = [total_events |-> 0, events_by_type |-> EmptyDict,
                     events_by_priority |-> EmptyDict, patterns_detected |-> 0]
    /\ now = 0
    /\ ingest_calls = 0
    /\ cleared_at = 0
    /\ result = "none"
    /\ is_running = FALSE
    /\ loops = [l \in 1..MaxLoops |-> "none"]
    /\ stopped_loops = {}
    /\ snapshot = [taken |-> FALSE, total_events |-> 0, patterns_detected |-> 0]

\* an append that never evicts
deque_append_unbounded(buf, e) == Append(buf, e)

\* an append that, when full, evicts the event with the earliest timestamp
deque_append_evict_earliest(buf, e) ==
    IF BufferSize = 0 THEN buf
    ELSE IF Len(buf) = BufferSize
    THEN LET k == CHOOSE i \in 1..Len(buf) :
                    \A j \in 1..Len(buf) :
                       \/ buf[i].timestamp < buf[j].timestamp
                       \/ (buf[i].timestamp = buf[j].timestamp /\ i <= j)
         IN Append(SubSeq(buf, 1, k - 1) \o SubSeq(buf, k + 1, Len(buf)), e)
    ELSE Append(buf, e)

\* deque(maxlen = BufferSize).append(e)
deque_append(buf, e) ==
    IF BufferSize = 0 THEN buf
    ELSE IF Len(buf) = BufferSize THEN Append(Tail(buf), e)
    ELSE Append(buf, e)

\* add_event, lines 115-124: the counters of the statistics
count_event(stats, e) ==
    [stats EXCEPT !.total_events = @ + 1,
                  !.events_by_type = DictIncrement(@, e.event_type),
                  !.events_by_priority = DictIncrement(@, e.priority)]

\* a window filter that excludes the boundary
get_recent_events_strict(buf, time_window, t) ==
    IF buf = <<>> THEN <<>>
    ELSE SelectSeq(buf, LAMBDA e : e.timestamp > t - time_window)

\* _get_recent_events(time_window), with datetime.now() = t
get_recent_events(buf, time_window, t) ==
    IF buf = <<>> THEN <<>>
    ELSE SelectSeq(buf, LAMBDA e : e.timestamp >= t - time_window)

\* the dictionary _handle_pattern_match builds
pattern_detection(p, matching_events, t) ==
    [pattern_id |-> p.pattern_id,
     timestamp |-> t,
     matching_events |-> [i \in 1..Len(matching_events) |-> matching_events[i].event_id]]

\* pattern.action(matching_events): returns, or raises an Exception
action(p, matching_events) ==
    IF p.action = "raises" THEN "raise" ELSE "ok"

\* a handler without the try/except around the action
handle_pattern_match_unguarded(p, matching_events, t, det, stats) ==
    [detected |-> Append(det, pattern_detection(p, matching_events, t)),
     statistics |-> [stats EXCEPT !.patterns_detected = @ + 1],
     result |-> IF action(p, matching_events) = "raise" THEN "raised"
                ELSE "returned"]

\* a handler that counts the detection only after the action returned
handle_pattern_match_count_late(p, matching_events, t, det, stats) ==
    [detected |-> Append(det, pattern_detection(p, matching_events, t)),
     statistics |-> IF action(p, matching_events) = "raise" THEN stats
                    ELSE [stats EXCEPT !.patterns_detected = @ + 1],
     result |-> "returned"]

\* _handle_pattern_match(pattern, matching_events): the record is appended
\* and counted, then the action runs inside try/except Exception, so the
\* call returns whether the action returns or raises.
handle_pattern_match(p, matching_events, t, det, stats) ==
    [detected |-> Append(det, pattern_detection(p, matching_events, t)),
     statistics |-> [stats EXCEPT !.patterns_detected = @ + 1],
     result |-> IF action(p, matching_events) = "raise" THEN "returned"
                ELSE "returned"]

\* _check_patterns(): the loop over self.patterns.values() from position i;
\* an exception raised by matches leaves the loop and the call.
RECURSIVE check_patterns(_, _, _, _, _, _)
check_patterns(pats, i, buf, t, det, stats) ==
    IF i > Len(pats)
    THEN [detected |-> det, statistics |-> stats, result |-> "returned"]
    ELSE LET p == pats[i]
             recent_events == get_recent_events(buf, p.time_window, t)
             m == matches(p, recent_events)
         IN IF m = "raise"
            THEN [detected |-> det, statistics |-> stats, result |-> "raised"]
            ELSE IF m = "true"
            THEN LET h == handle_pattern_match(p, recent_events, t, det, stats)
                 IN IF h.result = "raised"
                    THEN [detected |-> h.detected, statistics |-> h.statistics,
                          result |-> "raised"]
                    ELSE check_patterns(pats, i + 1, buf, t, h.detected, h.statistics)
            ELSE check_patterns(pats, i + 1, buf, t, det, stats)

\* the Event a producer builds for its k-th submission
Event(k, inp, ts) ==
    [event_id |-> k, event_type |-> inp.event_type, timestamp |-> ts,
     priority |-> inp.priority, temperature |-> inp.temperature]

\* an add_event that counts the type and the priority only after the
\* evaluation pass returned
add_event_count_after_pass(inputs) ==
    /\ ingest_calls < MaxIngest
    /\ \E inp \in inputs, ts \in Timestamps(now) :
         LET e == Event(ingest_calls + 1, inp, ts)
             buf == deque_append(event_buffer, e)
             r == check_patterns(patterns, 1, buf, now, detected_patterns,
                                 [statistics EXCEPT !.total_events = @ + 1])
         IN /\ event_buffer' = buf
            /\ detected_patterns' = r.detected
            /\ statistics' =
                  IF r.result = "raised" THEN r.statistics
                  ELSE [r.statistics EXCEPT
                          !.events_by_type = DictIncrement(@, e.event_type),
                          !.events_by_priority = DictIncrement(@, e.priority)]
            /\ result' = r.result
    /\ ingest_calls' = ingest_calls + 1
    /\ UNCHANGED <<patterns, now, cleared_at, sched, snapshot>>

\* an add_event whose evaluation pass sees the buffer before the eviction
add_event_match_before_evict(inputs) ==
    /\ ingest_calls < MaxIngest
    /\ \E inp \in inputs, ts \in Timestamps(now) :
         LET e == Event(ingest_calls + 1, inp, ts)
             r == check_patterns(patterns, 1, Append(event_buffer, e), now,
                                 detected_patterns, count_event(statistics, e))
         IN /\ event_buffer' = deque_append(event_buffer, e)
            /\ detected_patterns' = r.detected
            /\ statistics' = r.statistics
            /\ result' = r.result
    /\ ingest_calls' = ingest_calls + 1
    /\ UNCHANGED <<patterns, now, cleared_at, sched, snapshot>>

\* add_event(event)
add_event(inputs) ==
    /\ ingest_calls < MaxIngest
    /\ \E inp \in inputs, ts \in Timestamps(now) :
         LET e == Event(ingest_calls + 1, inp, ts)
             buf == deque_append(event_buffer, e)
             r == check_patterns(patterns, 1, buf, now, detected_patterns,
                                 count_event(statistics, e))
         IN /\ event_buffer' = buf
            /\ detected_patterns' = r.detected
            /\ statistics' = r.statistics
            /\ result' = r.result
    /\ ingest_calls' = ingest_calls + 1
    /\ UNCHANGED <<patterns, now, cleared_at, sched, snapshot>>

\* a registry kept as a list: every registration appends
dict_set_append(pats, p) == Append(pats, p)

\* self.patterns[pattern.pattern_id] = pattern: a known key keeps its place
dict_set(pats, p) ==
    IF \E i \in 1..Len(pats) : pats[i].pattern_id = p.pattern_id
    THEN [i \in 1..Len(pats) |->
            IF pats[i].pattern_id = p.pattern_id THEN p ELSE pats[i]]
    ELSE Append(pats, p)

\* register_pattern(pattern)
register_pattern(inputs) ==
    /\ \E p \in inputs : patterns' = dict_set(patterns, p)
    /\ UNCHANGED <<event_buffer, detected_patterns, statistics, now,
                   ingest_calls, cleared_at, result, sched, snapshot>>

\* Python's xs[-limit:] : the last limit elements for limit > 0, the whole
\* list for limit = 0 (-0 is 0), and xs[k:] for limit = -k < 0.
NegSlice(xs, limit) ==
    IF limit > 0 THEN LastSlice(xs, limit)
    ELSE SubSeq(xs, 1 - limit, Len(xs))

\* get_events(event_type, priority, limit); "None" stands for an absent filter
get_events(buf, event_type, priority, limit) ==
    LET byType == IF event_type # "None"
                  THEN SelectSeq(buf, LAMBDA e : e.event_type = event_type)
                  ELSE buf
        byPriority == IF priority # "None"
                      THEN SelectSeq(byType, LAMBDA e : e.priority = priority)
                      ELSE byType
    IN NegSlice(byPriority, limit)

\* a clear that also resets the statistics
clear_buffer_resets_statistics ==
    /\ event_buffer' = <<>>
    /\ cleared_at' = ingest_calls
    /\ statistics' = [statistics EXCEPT !.total_events = 0,
                                         !.events_by_type = EmptyDict,
                                         !.events_by_priority = EmptyDict]
    /\ UNCHANGED <<patterns, detected_patterns, now, ingest_calls, result, sched, snapshot>>

\* a clear that drops only the oldest event (popleft)
clear_buffer_popleft ==
    /\ event_buffer' = IF event_buffer = <<>> THEN <<>> ELSE Tail(event_buffer)
    /\ cleared_at' = ingest_calls
    /\ UNCHANGED <<patterns, detected_patterns, statistics, now,
                   ingest_calls, result, sched, snapshot>>

\* clear_buffer()
clear_buffer ==
    /\ event_buffer' = <<>>
    /\ cleared_at' = ingest_calls
    /\ UNCHANGED <<patterns, detected_patterns, statistics, now,
                   ingest_calls, result, sched, snapshot>>

\* the clock advances
Tick ==
    /\ now < MaxTime
    /\ now' = now + 1
    /\ UNCHANGED <<event_buffer, patterns, detected_patterns, statistics,
                   ingest_calls, cleared_at, result, sched, snapshot>>

\* the state of the engine proper, which the scheduler never touches
engine == <<event_buffer, patterns, detected_patterns, statistics, now,
            ingest_calls, cleared_at, result>>

\* start_monitoring() is called: the coroutine l is created; its body has
\* not run yet
start_monitoring(l) ==
    /\ loops[l] = "none"
    /\ \A k \in 1..(l - 1) : loops[k] # "none"
    /\ loops' = [loops EXCEPT ![l] = "created"]
    /\ UNCHANGED <<is_running, stopped_loops, engine, snapshot>>

\* coroutine l runs to its first await: is_running = True, the while test
\* (true, just set), asyncio.sleep(1)
monitoring_begin(l) ==
    /\ loops[l] = "created"
    /\ is_running' = TRUE
    /\ loops' = [loops EXCEPT ![l] = "sleeping"]
    /\ UNCHANGED <<stopped_loops, engine, snapshot>>

\* coroutine l wakes from asyncio.sleep(1) and tests while self.is_running:
\* it sleeps again or returns
monitoring_wake(l) ==
    /\ loops[l] = "sleeping"
    /\ loops' = [loops EXCEPT ![l] = IF is_running THEN "sleeping" ELSE "done"]
    /\ stopped_loops' = stopped_loops \ {l}
    /\ UNCHANGED <<is_running, engine, snapshot>>

\* stop_monitoring()
stop_monitoring ==
    /\ is_running' = FALSE
    /\ stopped_loops' = stopped_loops \cup {l \in 1..MaxLoops : loops[l] = "sleeping"}
    /\ UNCHANGED <<loops, engine, snapshot>>

\* The monitoring scheduler under any interleaving of its calls and wake-ups
NextMonitor ==
    \/ \E l \in 1..MaxLoops : start_monitoring(l)
    \/ \E l \in 1..MaxLoops : monitoring_begin(l)
    \/ \E l \in 1..MaxLoops : monitoring_wake(l)
    \/ stop_monitoring
    \/ Tick

SpecMonitor == Init /\ [][NextMonitor]_vars

\* get_statistics(): self.statistics.copy() is a new dictionary that owns
\* the two integer entries; its "events_by_type" and "events_by_priority"
\* entries are the very dictionaries of self.statistics
get_statistics ==
    /\ snapshot' = [taken |-> TRUE,
                    total_events |-> statistics.total_events,
                    patterns_detected |-> statistics.patterns_detected]
    /\ UNCHANGED <<engine, sched>>

\* what the caller reads in the dictionary it holds
SnapshotValue ==
    [total_events |-> snapshot.total_events,
     events_by_type |-> statistics.events_by_type,
     events_by_priority |-> statistics.events_by_priority,
     patterns_detected |-> snapshot.patterns_detected]

\* the caller writes into the dictionary it holds: snap[key] = 0 for an
\* integer entry, snap[key].clear() for a map entry
caller_mutates_snapshot ==
    /\ snapshot.taken
    /\ \E key \in {"total_events", "patterns_detected",
                    "events_by_type", "events_by_priority"} :
          IF key \in {"total_events", "patterns_detected"}
          THEN /\ snapshot' = [snapshot EXCEPT ![key] = 0]
               /\ UNCHANGED statistics
          ELSE /\ statistics' = [statistics EXCEPT ![key] = EmptyDict]
               /\ UNCHANGED snapshot
    /\ UNCHANGED <<event_buffer, patterns, detected_patterns, now,
                   ingest_calls, cleared_at, result, sched>>

\* An engine whose statistics a caller reads
NextSnapshot ==
    \/ add_event(AlertInputs)
    \/ get_statistics
    \/ caller_mutates_snapshot
    \/ clear_buffer

SpecSnapshot == Init /\ [][NextSnapshot]_vars

\* An engine running the example patterns
Next ==
    \/ add_event(EventInputs)
    \/ register_pattern(ExamplePatterns)
    \/ clear_buffer
    \/ Tick

Spec == Init /\ [][Next]_vars

\* An engine whose registry holds faulty patterns
NextFaulty ==
    \/ add_event(AlertInputs)
    \/ register_pattern(FaultyPatterns)
    \/ clear_buffer
    \/ Tick

SpecFaulty == Init /\ [][NextFaulty]_vars

\* An engine whose patterns' actions may fail
NextActions ==
    \/ add_event(AlertInputs)
    \/ register_pattern(ActionPatterns)
    \/ clear_buffer
    \/ Tick

SpecActions == Init /\ [][NextActions]_vars

----------------------------------------------------------------------------
(* Vocabulary of the properties *)

\* a step in which add_event ran
IngestStep == ingest_calls' = ingest_calls + 1

\* a step in which clear_buffer ran on a buffer filled since the last clear
ClearStep == cleared_at' # cleared_at

\* add_event calls since the last clear_buffer
SinceClear == ingest_calls - cleared_at

Smaller(a, b) == IF a <= b THEN a ELSE b

\* the last n elements of xs (n <= Len(xs)); none for n = 0
Trailing(xs, n) == [i \in 1..n |-> xs[Len(xs) - n + i]]

Ids(events) == [i \in 1..Len(events) |-> events[i].event_id]
Types(events) == [i \in 1..Len(events) |-> events[i].event_type]

\* the records the step appended to the detection log
NewRecords ==
    SubSeq(detected_patterns', Len(detected_patterns) + 1, Len(detected_patterns'))

\* the time-filtered candidates of pattern p on the pass of this step
Candidates(p) == get_recent_events(event_buffer', p.time_window, now)

Registered == {patterns[i] : i \in 1..Len(patterns)}

PatternById(id) == CHOOSE p \in Registered : p.pattern_id = id

\* the step appended a record for pattern p
Detected(p) == \E k \in 1..Len(NewRecords) : NewRecords[k].pattern_id = p.pattern_id

----------------------------------------------------------------------------
(* C1: after any sequence of add_event, register_pattern and clear_buffer
   calls the buffer holds at most BufferSize events. *)
BufferBound == Len(event_buffer) <= BufferSize

\* a full buffer that has already evicted
BufferBoundWitness ==
    /\ Len(event_buffer) = BufferSize
    /\ SinceClear > BufferSize

(* C2: eviction is FIFO by insertion: the buffer holds exactly the last
   min(n, BufferSize) events ingested since the last clear, in the order of
   their ingestion (event k of the run carries id k), whatever their
   timestamps. *)
FifoByInsertion ==
    LET k == Smaller(SinceClear, BufferSize)
    IN /\ Len(event_buffer) = k
       /\ \A i \in 1..k : event_buffer[i].event_id = ingest_calls - k + i

\* an eviction has happened and the buffer is not in timestamp order: its
\* oldest-inserted event carries the latest timestamp
FifoByInsertionWitness ==
    /\ SinceClear > BufferSize
    /\ Len(event_buffer) = BufferSize
    /\ \A i \in 2..Len(event_buffer) :
          event_buffer[1].timestamp > event_buffer[i].timestamp

(* C3: total_events is a lifetime counter: it equals the number of add_event
   calls made so far, so neither eviction nor clear_buffer lowers it. *)
TotalEventsLifetime == statistics.total_events = ingest_calls

\* events were evicted, then the buffer was cleared, and all are still counted
TotalEventsLifetimeWitness ==
    /\ cleared_at > BufferSize
    /\ event_buffer = <<>>
    /\ statistics.total_events = cleared_at

(* C4: clear_buffer empties the buffer (get_events with any limit then
   returns the empty sequence) and leaves the statistics, the detection log
   and the pattern registry unchanged. *)
ClearSemantics ==
    [][ClearStep =>
          /\ \A limit \in 0..(BufferSize + 1) :
                get_events(event_buffer', "None", "None", limit) = <<>>
          /\ UNCHANGED <<statistics, detected_patterns, patterns>>]_vars

\* a cleared engine that still has its counters, detections and patterns
ClearSemanticsWitness ==
    /\ ingest_calls > 0
    /\ cleared_at = ingest_calls
    /\ event_buffer = <<>>
    /\ statistics.total_events > 0
    /\ detected_patterns # <<>>
    /\ patterns # <<>>

(* C5: every detection record is built from the trailing slice: its
   matching_events are the ids of the last len(event_types) candidates of
   its pattern, so it has exactly len(event_types) ids. *)
RecordFromTrailingSlice ==
    [][IngestStep =>
          \A k \in 1..Len(NewRecords) :
             LET p == PatternById(NewRecords[k].pattern_id)
             IN NewRecords[k].matching_events =
                   Ids(Trailing(Candidates(p), Len(p.event_types)))]_vars

\* the count, span and type checks of a pass, on the candidates c of p
PassesStructure(p, c) ==
    /\ Len(c) >= Len(p.event_types)
    /\ c # <<>>
    /\ c[Len(c)].timestamp - c[1].timestamp <= p.time_window
    /\ Types(Trailing(c, Len(p.event_types))) = p.event_types

(* C6: the condition is evaluated on the trailing slice only: a pattern that
   passes the count, span and type checks on a pass is detected if and only
   if its condition holds of the last len(event_types) candidates. *)
ConditionOnTrailingSlice ==
    [][IngestStep =>
          \A p \in Registered :
             PassesStructure(p, Candidates(p)) =>
                (Detected(p) <=>
                    condition(p, Trailing(Candidates(p), Len(p.event_types))) = "true")]_vars

\* the types of the two most recently ingested events still buffered
LastTwoTypes(buf) ==
    IF Len(buf) < 2 THEN <<>> ELSE Types(Trailing(buf, 2))

(* C7, as amended: a pattern is detected on a pass only if the types of its
   last len(event_types) candidates equal event_types position by position;
   so [alert, threshold_breach] is not detected on a pass whose two most
   recent candidates are [threshold_breach, alert]. *)
TypeOrderSensitive ==
    [][IngestStep =>
          \A p \in Registered :
             Detected(p) =>
                /\ Len(Candidates(p)) >= Len(p.event_types)
                /\ Types(Trailing(Candidates(p), Len(p.event_types))) = p.event_types]_vars

\* the critical-sequence pattern fired on [alert, threshold_breach] and did
\* not fire on the next pass, whose candidates end [threshold_breach, alert]
TypeOrderSensitiveWitness ==
    /\ Len(event_buffer) = 3
    /\ ingest_calls = 3
    /\ Types(event_buffer) = <<"alert", "threshold_breach", "alert">>
    /\ \A i \in 1..3 : event_buffer[i].timestamp = now
    /\ Len(detected_patterns) = 1
    /\ detected_patterns[1] = [pattern_id |-> "critical_seq_01", timestamp |-> now,
                                matching_events |-> <<1, 2>>]

(* C7, as stated: in addition, [alert, threshold_breach] is never detected
   on a pass when the two most recently ingested events are
   [threshold_breach, alert]. *)
TypeOrderByArrival ==
    [][IngestStep =>
          \A p \in Registered :
             Detected(p) =>
                /\ Types(Trailing(Candidates(p), Len(p.event_types))) = p.event_types
                /\ (p.event_types = <<"alert", "threshold_breach">> =>
                       LastTwoTypes(event_buffer') # <<"threshold_breach", "alert">>)]_vars

\* the windows get_recent_events is asked for
Windows == {p.time_window : p \in ExamplePatterns \cup FaultyPatterns}

\* position of a buffered event
PositionOf(e) == CHOOSE i \in 1..Len(event_buffer) : event_buffer[i] = e

(* C8: get_recent_events(window) at clock value t returns exactly the
   buffered events with timestamp >= t - window, wherever they sit in the
   buffer, in insertion order; with t0 < t1 < t2, t2 - t0 > window and
   t2 - t1 <= window it returns [e1, e2] at t2. *)
WindowCorrect ==
    \A w \in Windows, t \in 0..MaxTime :
       LET r == get_recent_events(event_buffer, w, t)
       IN /\ \A i \in 1..Len(event_buffer) :
                (event_buffer[i].timestamp >= t - w) <=>
                   (\E j \in 1..Len(r) : r[j] = event_buffer[i])
          /\ \A j \in 1..Len(r) : \E i \in 1..Len(event_buffer) : r[j] = event_buffer[i]
          /\ \A j, k \in 1..Len(r) : j < k => PositionOf(r[j]) < PositionOf(r[k])
          /\ (/\ Len(event_buffer) = 3
              /\ event_buffer[1].timestamp < event_buffer[2].timestamp
              /\ event_buffer[2].timestamp < event_buffer[3].timestamp
              /\ t = event_buffer[3].timestamp
              /\ t - event_buffer[1].timestamp > w
              /\ t - event_buffer[2].timestamp <= w)
             => r = <<event_buffer[2], event_buffer[3]>>

\* three buffered events at 0 < 1 < 2, of which a window of 1 at clock 2
\* keeps the last two, the older of them exactly on the boundary
WindowCorrectWitness ==
    /\ Len(event_buffer) = 3
    /\ [i \in 1..3 |-> event_buffer[i].timestamp] = <<0, 1, 2>>
    /\ get_recent_events(event_buffer, 1, 2) = <<event_buffer[2], event_buffer[3]>>

(* C9: a condition that raises is isolated: on a pass in which a registered
   pattern's condition raises, every other registered pattern that is
   satisfied still gets its detection record. *)
ConditionFailureIsolated ==
    [][IngestStep =>
          ((\E q \in Registered : matches(q, Candidates(q)) = "raise") =>
              \A p \in Registered :
                 matches(p, Candidates(p)) = "true" => Detected(p))]_vars

(* C10: no failure raised inside a pattern's condition or action reaches the
   caller of add_event: every add_event call returns normally. *)
IngestReturnsNormally == result # "raised"

\* on the pass of this step the loop reaches the i-th registered pattern:
\* no earlier pattern's matches call raised
Reached(i) ==
    \A k \in 1..(i - 1) : matches(patterns[k], Candidates(patterns[k])) # "raise"

\* the i-th registered pattern was evaluated on the pass of this step: the
\* step shows the outcome of its matches call
Evaluated(i) ==
    LET m == matches(patterns[i], Candidates(patterns[i]))
    IN /\ m = "true" => Detected(patterns[i])
       /\ m = "false" => ~Detected(patterns[i])
       /\ m = "raise" => result' = "raised"

(* C11: when a matched pattern's action raises, the detection record
   appended for that match stays in the log, patterns_detected stays
   incremented, and the patterns after it are still evaluated in the same
   pass. *)
ActionFailureContained ==
    [][IngestStep =>
          \A i \in 1..Len(patterns) :
             (/\ Reached(i)
              /\ matches(patterns[i], Candidates(patterns[i])) = "true"
              /\ action(patterns[i], Candidates(patterns[i])) = "raise")
             => /\ Detected(patterns[i])
                /\ statistics'.patterns_detected =
                      statistics.patterns_detected + Len(NewRecords)
                /\ Len(NewRecords) >= 1
                /\ \A j \in (i + 1)..Len(patterns) : Reached(j) => Evaluated(j)]_vars

\* a pass on [alert, threshold_breach] in which critical_seq_01, whose
\* action raises, and breach_01 after it were both recorded and counted
ActionFailureContainedWitness ==
    /\ Len(patterns) = 2
    /\ patterns[1].pattern_id = "critical_seq_01"
    /\ patterns[1].action = "raises"
    /\ patterns[2].pattern_id = "breach_01"
    /\ ingest_calls = 2
    /\ result = "returned"
    /\ statistics.patterns_detected = 2
    /\ [k \in 1..Len(detected_patterns) |-> detected_patterns[k].pattern_id]
          = <<"critical_seq_01", "breach_01">>
    /\ \A k \in 1..Len(detected_patterns) :
          detected_patterns[k].matching_events = <<1, 2>>

(* C12: register_pattern rejects an invalid pattern: no pattern with an
   empty type sequence or a non-positive window is ever in the registry. *)
RegistryHoldsValidPatterns ==
    \A p \in Registered : Len(p.event_types) >= 1 /\ p.time_window > 0

\* the pattern ids of the registry, in key order
RegisteredIds(pats) == [i \in 1..Len(pats) |-> pats[i].pattern_id]

(* C13: registration replaces by id: the registry holds one pattern per id;
   a registration puts its definition in the registry as the only one of
   its id, leaves the patterns of the other ids as they were, and changes
   the size of the registry only when the id is new. *)
RegistrationReplacesById ==
    [][patterns' # patterns =>
          /\ \A i, j \in 1..Len(patterns') :
                patterns'[i].pattern_id = patterns'[j].pattern_id => i = j
          /\ \E p \in {patterns'[i] : i \in 1..Len(patterns')} \ Registered :
                /\ \A q \in Registered :
                      q.pattern_id # p.pattern_id =>
                         \E i \in 1..Len(patterns') : patterns'[i] = q
                /\ Len(patterns') =
                      IF \E q \in Registered : q.pattern_id = p.pattern_id
                      THEN Len(patterns) ELSE Len(patterns) + 1]_vars

\* faulty_01 was registered before critical_seq_01 with the definition that
\* cannot raise on a threshold breach (critical_seq_01 has a record), and
\* now holds its other definition: the second registration replaced it
RegistrationReplacesByIdWitness ==
    /\ RegisteredIds(patterns) = <<"faulty_01", "critical_seq_01">>
    /\ patterns[1].condition = "raises"
    /\ Len(detected_patterns) = 1
    /\ detected_patterns[1].pattern_id = "critical_seq_01"

\* the tick loops that are active: started and not yet returned
ActiveLoops == {l \in 1..MaxLoops : loops[l] = "sleeping"}

(* C14: start_monitoring is a no-op when the scheduler is already running
   and stop_monitoring is a no-op when it is stopped: under any interleaving
   of the two calls at most one tick loop is active. *)
AtMostOneTickLoop == Cardinality(ActiveLoops) <= 1

(* C15: after stop_monitoring, every tick loop that was active at that
   moment terminates at its next wake-up, whatever start_monitoring and
   stop_monitoring calls come in between. *)
StoppedLoopTerminates ==
    [][\A l \in stopped_loops :
          (l \notin stopped_loops' /\ loops[l] = "sleeping") => loops'[l] = "done"]_vars

(* C16: the dictionary get_statistics returns is a copy: a caller writing
   into any part of it, the per-type and per-priority maps included, leaves
   the statistics of the engine unchanged (only add_event changes them), and
   a later add_event does not change a dictionary returned before. *)
SnapshotIsCopy ==
    [][/\ ~IngestStep => statistics' = statistics
       /\ (IngestStep /\ snapshot.taken) => SnapshotValue' = SnapshotValue]_vars

\* the filters and limits get_events is asked for
TypeFilters == {"None"} \cup {inp.event_type : inp \in EventInputs}
PriorityFilters == {"None"} \cup {inp.priority : inp \in EventInputs}
Limits == 0..(BufferSize + 1)

\* the buffered events that pass the filters, in insertion order
Filtered(event_type, priority) ==
    SelectSeq(event_buffer,
              LAMBDA e : /\ (event_type = "None" \/ e.event_type = event_type)
                         /\ (priority = "None" \/ e.priority = priority))

(* C17: get_events(filter, limit) returns, in insertion order, the most
   recent limit buffered events that pass the filter: for every limit >= 0
   the suffix of length min(limit, number of filtered events) of the
   filtered buffer, so nothing for limit = 0. *)
SnapshotReturnsSuffix ==
    \A ty \in TypeFilters, pr \in PriorityFilters, limit \in Limits :
       LET f == Filtered(ty, pr)
       IN get_events(event_buffer, ty, pr, limit) =
             Trailing(f, Smaller(limit, Len(f)))

\* the ids of the events in buf
BufferedIds(buf) == {buf[i].event_id : i \in 1..Len(buf)}

(* C18: when a detection record is appended, every id in its
   matching_events belongs to an event held in the buffer at that moment;
   no record references an evicted or cleared event. *)
DetectionReferencesBuffer ==
    [][IngestStep =>
         \A k \in 1..Len(NewRecords) :
            \A j \in 1..Len(NewRecords[k].matching_events) :
               NewRecords[k].matching_events[j] \in BufferedIds(event_buffer')]_vars

\* a record made by the add_event that evicted event 1: it names the new
\* event and only buffered events, and event 1 is gone
DetectionReferencesBufferWitness ==
    /\ ingest_calls > BufferSize
    /\ cleared_at = 0
    /\ 1 \notin BufferedIds(event_buffer)
    /\ detected_patterns # <<>>
    /\ LET rec == detected_patterns[Len(detected_patterns)]
       IN /\ \E j \in 1..Len(rec.matching_events) :
                rec.matching_events[j] = ingest_calls
          /\ Len(rec.matching_events) = BufferSize
          /\ \A j \in 1..Len(rec.matching_events) :
                rec.matching_events[j] \in BufferedIds(event_buffer)

\* the timestamps of a list of events
TimestampsOf(events) == {events[i].timestamp : i \in 1..Len(events)}

\* latest timestamp minus earliest timestamp of a non-empty list of events
Spread(events) ==
    MaxOf(TimestampsOf(events)) - MinOf(TimestampsOf(events))

(* C19: the span guard compares timestamps, not positions: no record is
   appended for a pattern on a pass in which the time-filtered candidates'
   latest timestamp minus their earliest timestamp exceeds the pattern's
   window, whatever the insertion order of the events. *)
SpanGuardByTimestamp ==
    [][IngestStep =>
         \A p \in Registered :
            Detected(p) => Spread(Candidates(p)) <= p.time_window]_vars

\* the records the step appended for pattern p
RecordsOf(p) == {k \in 1..Len(NewRecords) : NewRecords[k].pattern_id = p.pattern_id}

(* C20: patterns_detected equals the number of records in the detection
   log, and the log only grows: across every step the previous log is a
   prefix of the new log, only add_event appends, and one add_event appends
   at most one record per registered pattern and none for any other. *)
LogAppendOnlyAndCounted ==
    [][/\ statistics.patterns_detected = Len(detected_patterns)
       /\ statistics'.patterns_detected = Len(detected_patterns')
       /\ Len(detected_patterns) <= Len(detected_patterns')
       /\ SubSeq(detected_patterns', 1, Len(detected_patterns)) = detected_patterns
       /\ ~IngestStep => NewRecords = <<>>
       /\ IngestStep =>
             /\ \A p \in Registered : Cardinality(RecordsOf(p)) <= 1
             /\ \A k \in 1..Len(NewRecords) :
                   \E p \in Registered : NewRecords[k].pattern_id = p.pattern_id]_vars

\* a log of three counted records, built by more than one add_event with a
\* raising action registered, that outlived a clear_buffer
LogAppendOnlyAndCountedWitness ==
    /\ Len(detected_patterns) >= 3
    /\ statistics.patterns_detected = Len(detected_patterns)
    /\ cleared_at > 0
    /\ event_buffer = <<>>
    /\ \E i \in 1..Len(patterns) : patterns[i].action = "raises"
    /\ detected_patterns[1].matching_events # detected_patterns[3].matching_events

\* the sum of the counts of a dictionary of counters
RECURSIVE SumOver(_, _)
SumOver(d, keys) ==
    IF keys = {} THEN 0
    ELSE LET k == CHOOSE x \in keys : TRUE
         IN d[k] + SumOver(d, keys \ {k})

SumOf(d) == SumOver(d, DOMAIN d)

(* C21: in every state between operations, also after an add_event whose
   evaluation pass hit a raising condition or action, the counts of
   events_by_type sum to total_events and so do the counts of
   events_by_priority. *)
StatisticsConsistent ==
    /\ SumOf(statistics.events_by_type) = statistics.total_events
    /\ SumOf(statistics.events_by_priority) = statistics.total_events

\* after an add_event that a raising condition aborted, with events of two
\* types and two priorities counted
StatisticsConsistentWitness ==
    /\ result = "raised"
    /\ statistics.total_events >= 2
    /\ Cardinality(DOMAIN statistics.events_by_type) = 2
    /\ Cardinality(DOMAIN statistics.events_by_priority) = 2
    /\ SumOf(statistics.events_by_type) = statistics.total_events
    /\ \E i \in 1..Len(patterns) : patterns[i].condition = "raises"

====
